---- MODULE Spec2Model ----
(***************************************************************************)
(* Model of the GPIO example programs of the repository.                   *)
(*                                                                         *)
(*   pwm-control : main (driving flow) + pwm_thread (generation thread),   *)
(*                 communicating through the fields of pwm_control_t.      *)
(*   simple-pwm, hello-world, gpio-interrupts, test-gpio : main alone.     *)
(*                                                                         *)
(* A behaviour runs one program, chosen by the initial state.              *)
(*                                                                         *)
(* Each C statement that touches state shared by the two flows is one      *)
(* step; statements that touch only a flow's own locals are merged into    *)
(* the neighbouring step.  The accesses to the volatile fields are single  *)
(* loads and stores of an int or a bool, so a racing read returns either   *)
(* the value before or the value after the racing store, which is what the *)
(* interleaving of the steps produces.                                     *)
(***************************************************************************)
EXTENDS Integers, Sequences, FiniteSets, TLC

\* ------------------------------------------------------------------ bounds
\* Iterations of main's control loop that are explored.
MaxIter == 52
\* Button presses (falling edges) that are explored.
MaxPresses == 3
\* Calls of one animation function that are explored when the functions are
\* called directly.
MaxCalls == 205
\* Event waits of gpio-interrupts' event loop that are explored.
MaxWaits == 12
\* Iterations of main's control loop that are explored when line writes can
\* fail.
MaxFaultIter == 22

\* --------------------------------------------------------------- constants
PWM_FREQUENCY == 1000
NS_PER_SEC == 1000000000
PWM_PERIOD_NS == NS_PER_SEC \div PWM_FREQUENCY
DUTY_MIN == 0
DUTY_MAX == 100
MANUAL_BRIGHTNESS_INIT == 50
BREATHING_STEP == 2
STROBE_TOGGLE == 5
ANIMATION_DIVIDER == 10
MODE_COUNT == 4
MODE_MANUAL == 0
MODE_BREATHING == 1
MODE_STROBE == 2
MODE_SINE_WAVE == 3

VARIABLES
    program,            \* which executable runs
    line_fault,         \* the LED line is one whose writes can fail
    mpc,                \* main: position
    running,            \* static volatile bool running
    exit_status,        \* main's return value, -1 while it runs
    chip,               \* "unopened" | "open" | "closed"
    led_line,           \* "none" | "got" | "requested" | "released"
    button_line,        \* "none" | "got" | "requested" | "released"
    line_value,         \* level of the LED line
    current_mode,       \* static volatile animation_mode_t current_mode
    manual_brightness,  \* static volatile int manual_brightness
    last_button_state,  \* main local
    animation_counter,  \* main local
    brightness,         \* breathing_animation: static int brightness
                        \* (simple-pwm: main's local brightness)
    direction,          \* breathing_animation: static int direction
                        \* (simple-pwm: main's local direction)
    phase,              \* sine_wave_animation: static float phase, in 1/10 rad
    strobe_state,       \* strobe_animation: static int state
    strobe_counter,     \* strobe_animation: static int counter
    sdc_arg,            \* set_duty_cycle: its (clamped) parameter
    duty_cycle,         \* pwm.duty_cycle
    active,             \* pwm.active
    mutex,              \* pwm.mutex: "uninit" | "free" | "main" | "thread" | "destroyed"
    tpc,                \* pwm_thread: position ("none" before pthread_create)
    duty,               \* pwm_thread local
    on_time_ns,         \* pwm_thread local
    off_time_ns,        \* pwm_thread local
    cycle_count,        \* simple-pwm: static int cycle_count
    on_time,            \* simple-pwm: main local, microseconds
    off_time,           \* simple-pwm: main local, microseconds
    button2_line,       \* gpio-interrupts: ctx.button2 (ctx.button1 is button_line,
                        \* ctx.led is led_line, ctx.chip is chip)
    button1_count,      \* gpio-interrupts: ctx.button1_count
    button2_count,      \* gpio-interrupts: ctx.button2_count
    led_state,          \* gpio-interrupts: handle_button_event's static led_state
    last_state_pressed, \* hello-world: static last_state of the pressed branch
    last_state_released,\* hello-world: static last_state of the released branch
    iters,              \* history: control loop iterations so far
    presses,            \* history: falling edges sampled so far
    hist                \* history record, see HistInit

vars == <<program, line_fault, mpc, running, exit_status, chip, led_line, button_line,
          line_value, current_mode, manual_brightness, last_button_state,
          animation_counter, brightness, direction, phase, strobe_state,
          strobe_counter, sdc_arg, duty_cycle, active, mutex, tpc, duty,
          on_time_ns, off_time_ns, cycle_count, on_time, off_time,
          button2_line, button1_count, button2_count, led_state,
          last_state_pressed, last_state_released, iters, presses, hist>>

simpleVars == <<cycle_count, on_time, off_time>>

helloVars == <<last_state_pressed, last_state_released>>

eventVars == <<button2_line, button1_count, button2_count, led_state>>

exampleVars == <<helloVars, eventVars>>

mainVars == <<mpc, exit_status, chip, led_line, button_line, current_mode,
              manual_brightness, last_button_state, animation_counter,
              brightness, direction, phase, strobe_state, strobe_counter,
              sdc_arg, iters, presses>>

threadVars == <<tpc, duty, on_time_ns, off_time_ns>>

resourceVars == <<exit_status, chip, led_line, button_line>>

animVars == <<brightness, direction, phase, strobe_state, strobe_counter>>

loopVars == <<current_mode, manual_brightness, last_button_state,
              animation_counter, iters, presses>>

\* ----------------------------------------------------------- history record
\* Observations of what the code did; no action's guard reads them.
HistInit ==
    [ initialised   |-> FALSE,  \* pwm_init has set the fields of pwm
      read_locked   |-> TRUE,   \* every read of duty_cycle by the thread held the mutex
      reads         |-> 0,      \* reads of duty_cycle in the current cycle
      read_val      |-> -1,     \* value of the locked read of the current cycle
      used_high     |-> -1,     \* value tested by "duty > 0" in the current cycle
      used_low      |-> -1,     \* value tested by "duty < 100" in the current cycle
      wrote1        |-> FALSE,  \* the current cycle wrote 1
      wrote0        |-> FALSE,  \* the current cycle wrote 0
      zero_sleep    |-> FALSE,  \* a sleep of length 0 was issued
      last_write    |-> -1,     \* last value the thread wrote to the line
      stop_cycles   |-> 0,      \* cycles completed since active was set to false
      stop_steps    |-> 0,      \* thread steps since active was set to false
      use_after_release |-> FALSE,  \* the thread wrote a line that was released
      lock_after_destroy |-> FALSE, \* the thread locked a destroyed mutex
      raw           |-> 0,      \* argument of the set_duty_cycle call in progress
      written_raw   |-> 0,      \* argument of the call that stored duty_cycle last
      read_raw      |-> 0,      \* written_raw at the thread's last read
      last_call     |-> "none", \* the animation step called last
      last_pub      |-> "none", \* the caller that stored duty_cycle last
      breath_calls  |-> 0,      \* calls of breathing_animation so far
      strobe_calls  |-> 0,      \* calls of strobe_animation so far
      printed       |-> "none", \* mode name printed at the last mode change
      ran           |-> "none", \* animation run last since that print
      acq_failed    |-> FALSE,  \* an acquisition step of main has failed
      entered_loop  |-> FALSE,  \* main's loop body has been entered
      sample        |-> 1,      \* hello-world: last button sample (pull-up: 1 at rest)
      prev_sample   |-> 1,      \* hello-world: the sample before that
      msg           |-> "none", \* hello-world: message printed by the last iteration
      polled        |-> FALSE,  \* hello-world: an iteration has run
      ev1           |-> 0,      \* gpio-interrupts: events read successfully on button 1
      ev2           |-> 0,      \* gpio-interrupts: events read successfully on button 2
      read_failed   |-> FALSE,  \* gpio-interrupts: an event read has failed
      write_failed  |-> FALSE,  \* a line write by the thread has failed
      log_lines     |-> 0,      \* lines the thread has printed
      unlocked_access |-> {}    \* <<flow, field, kind>> accesses made without the mutex
                                \* while both flows run
    ]

\* ------------------------------------------------------------ pure helpers
\* C int arithmetic on 32 bits, two's complement.
INT_MAX == 2147483647
INT_MIN == -INT_MAX - 1

\* x + y in int, wrapped to 32 bits (no intermediate leaves the int range).
AddInt32(x, y) ==
    IF x > 0 /\ y > 0 /\ y > INT_MAX - x THEN (x + INT_MIN) + (y + INT_MIN)
    ELSE IF x < 0 /\ y < 0 /\ y < INT_MIN - x THEN (x - INT_MIN) + (y - INT_MIN)
    ELSE x + y

\* a * b in int for a >= 0, wrapped to 32 bits: double and add.
RECURSIVE MulInt32(_, _)
MulInt32(a, b) ==
    IF b = 0 \/ a = 0 THEN 0
    ELSE IF b < 0 THEN
        LET p == MulInt32(a, -(b + 1))      \* a * (-b - 1)
            q == AddInt32(p, a)               \* a * (-b)
        IN  IF q = INT_MIN THEN INT_MIN ELSE -q
    ELSE
        LET half == MulInt32(a, b \div 2)
            dbl == AddInt32(half, half)
        IN  IF b % 2 = 1 THEN AddInt32(dbl, a) ELSE dbl

\* C integer division truncates toward zero.
CDiv(a, b) ==
    IF a >= 0 THEN a \div b ELSE -((-a) \div b)

\* set_duty_cycle, lines 135-136: the clamp.
ClampNoUpper(v) ==
    IF v < DUTY_MIN THEN DUTY_MIN ELSE v

Clamp(v) ==
    IF v < DUTY_MIN THEN DUTY_MIN
    ELSE IF v > DUTY_MAX THEN DUTY_MAX
    ELSE v

\* pwm_thread, line 106: (PWM_PERIOD_NS * duty) / 100 in int, widened to long.
OnTimeNsDivFirst(d) ==
    MulInt32(PWM_PERIOD_NS, CDiv(d, 100))

OnTimeNs(d) ==
    CDiv(MulInt32(PWM_PERIOD_NS, d), 100)

\* pwm_thread, line 107.
OffTimeNs(on) ==
    PWM_PERIOD_NS - on

\* breathing_animation, lines 192-200: the next <<brightness, direction>>.
BreathingNextLateBounce(b, dir) ==
    LET nb == b + dir * BREATHING_STEP
    IN  IF nb > DUTY_MAX THEN <<DUTY_MAX, -1>>
        ELSE IF nb <= DUTY_MIN THEN <<DUTY_MIN, 1>>
        ELSE <<nb, dir>>

BreathingNext(b, dir) ==
    LET nb == b + dir * BREATHING_STEP
    IN  IF nb >= DUTY_MAX THEN <<DUTY_MAX, -1>>
        ELSE IF nb <= DUTY_MIN THEN <<DUTY_MIN, 1>>
        ELSE <<nb, dir>>

\* (int)(50 * (1 + sin(k/10))) for k = 0 .. 63.
SineTable ==
    << 50, 54, 59, 64, 69, 73, 78, 82, 85, 89, 92, 94, 96, 98, 99, 99,
       99, 99, 98, 97, 95, 93, 90, 87, 83, 79, 75, 71, 66, 61, 57, 52,
       47, 42, 37, 32, 27, 23, 19, 15, 12, 9, 6, 4, 2, 1, 0, 0,
       0, 0, 2, 3, 5, 8, 11, 14, 18, 22, 26, 31, 36, 40, 45, 50 >>

\* sine_wave_animation, line 211, with phase in tenths of a radian.
SineBrightness(ph) ==
    SineTable[ph + 1]

\* sine_wave_animation, lines 216-219: phase += 0.1, wrapped past 2*pi
\* (2*pi is 62.8 tenths; the remainder of the wrap is rounded to a tenth).
PhaseNext(ph) ==
    IF ph + 1 > 62 THEN ph + 1 - 63 ELSE ph + 1

\* strobe_animation, lines 227-231: <<state, counter, publishes?>>.
StrobeNextEarly(st, cnt) ==
    IF cnt + 1 >= STROBE_TOGGLE - 1
    THEN <<1 - st, 0, TRUE>>
    ELSE <<st, cnt + 1, FALSE>>

StrobeNext(st, cnt) ==
    IF cnt + 1 >= STROBE_TOGGLE
    THEN <<1 - st, 0, TRUE>>
    ELSE <<st, cnt + 1, FALSE>>

\* Values an uninitialised int of main's frame may hold.
StackGarbage ==
    {-7, 0, 300}

\* The thread is between pthread_create and its return.
ThreadRunning ==
    tpc \notin {"none", "done"}

\* Record an access to a pwm_control_t field made without the mutex while the
\* other flow can run.
Unlocked(h, flow, field, kind) ==
    [h EXCEPT !.unlocked_access = @ \cup {<<flow, field, kind>>}]

\* ------------------------------------------------------------------- Init
\* The state at the start of a flow positioned at pc0: the initial values of
\* the file-scope and static variables and of main's locals.
StateWith(prog, pc0, b, fault) ==
    /\ program = prog
    /\ line_fault = fault
    /\ mpc = pc0
    /\ running = TRUE
    /\ exit_status = -1
    /\ line_value = 0
    /\ current_mode = MODE_MANUAL
    /\ manual_brightness = MANUAL_BRIGHTNESS_INIT
    /\ last_button_state = 1
    /\ animation_counter = 0
    /\ brightness = b
    /\ direction = 1
    /\ phase = 0
    /\ strobe_state = 0
    /\ strobe_counter = 0
    /\ sdc_arg = 0
    /\ duty = 0
    /\ on_time_ns = 0
    /\ off_time_ns = 0
    /\ cycle_count = 0
    /\ on_time = 0
    /\ off_time = 0
    /\ iters = 0
    /\ presses = 0
    /\ button2_line = "none"
    /\ button1_count = 0
    /\ button2_count = 0
    /\ led_state = 0
    /\ last_state_pressed = 1
    /\ last_state_released = 1

StateAt(prog, pc0, b) ==
    StateWith(prog, pc0, b, FALSE)

StartState(prog, pc0) ==
    StateAt(prog, pc0, 0)

\* pwm-control at the entry of main: pwm is an uninitialised local.
NothingAcquired ==
    /\ chip = "unopened"
    /\ led_line = "none"
    /\ button_line = "none"
    /\ mutex = "uninit"
    /\ tpc = "none"
    /\ hist = HistInit

InitPwmControl ==
    /\ StartState("pwm-control", "open_chip")
    /\ NothingAcquired
    /\ duty_cycle \in StackGarbage
    /\ active \in BOOLEAN

\* simple-pwm at the entry of main (it has no pwm_control_t).
InitSimplePwm ==
    /\ StartState("simple-pwm", "s_open_chip")
    /\ NothingAcquired
    /\ duty_cycle = 0
    /\ active = FALSE

\* hello-world at the entry of main.
InitHelloWorld ==
    /\ StartState("hello-world", "h_open_chip")
    /\ NothingAcquired
    /\ duty_cycle = 0
    /\ active = FALSE

\* gpio-interrupts at the entry of main (gpio_init clears the context).
InitGpioInterrupts ==
    /\ StartState("gpio-interrupts", "g_open_chip")
    /\ NothingAcquired
    /\ duty_cycle = 0
    /\ active = FALSE

\* test-gpio at the entry of main.
InitTestGpio ==
    /\ StartState("test-gpio", "t_open_chip")
    /\ NothingAcquired
    /\ duty_cycle = 0
    /\ active = FALSE

Init ==
    \/ InitPwmControl
    \/ InitSimplePwm
    \/ InitHelloWorld
    \/ InitGpioInterrupts
    \/ InitTestGpio

\* ------------------------------------------------- pwm-control: main, setup
\* main, lines 252-256.
OpenChip ==
    /\ program = "pwm-control"
    /\ mpc = "open_chip"
    /\ \E ok \in BOOLEAN :
          IF ok
          THEN /\ chip' = "open"
               /\ mpc' = "get_led"
               /\ UNCHANGED exit_status
          ELSE /\ mpc' = "exit"
               /\ exit_status' = 1
               /\ UNCHANGED chip
    /\ UNCHANGED <<program, line_fault, exampleVars, running, led_line, button_line, line_value,
                   current_mode, manual_brightness, last_button_state,
                   animation_counter, brightness, direction, phase,
                   strobe_state, strobe_counter, sdc_arg, duty_cycle, active,
                   mutex, threadVars, simpleVars, iters, presses, hist>>

\* main, lines 259-263.
GetLedLine ==
    /\ program = "pwm-control"
    /\ mpc = "get_led"
    /\ \E ok \in BOOLEAN :
          IF ok
          THEN /\ led_line' = "got"
               /\ mpc' = "get_button"
          ELSE /\ mpc' = "cleanup_chip"
               /\ UNCHANGED led_line
    /\ UNCHANGED <<program, line_fault, exampleVars, running, exit_status, chip, button_line,
                   line_value, current_mode, manual_brightness,
                   last_button_state, animation_counter, brightness,
                   direction, phase, strobe_state, strobe_counter, sdc_arg,
                   duty_cycle, active, mutex, threadVars, simpleVars, iters, presses, hist>>

\* main, lines 266-270.
GetButtonLine ==
    /\ program = "pwm-control"
    /\ mpc = "get_button"
    /\ \E ok \in BOOLEAN :
          IF ok
          THEN /\ button_line' = "got"
               /\ mpc' = "req_led"
          ELSE /\ mpc' = "cleanup_chip"
               /\ UNCHANGED button_line
    /\ UNCHANGED <<program, line_fault, exampleVars, running, exit_status, chip, led_line, line_value,
                   current_mode, manual_brightness, last_button_state,
                   animation_counter, brightness, direction, phase,
                   strobe_state, strobe_counter, sdc_arg, duty_cycle, active,
                   mutex, threadVars, simpleVars, iters, presses, hist>>

\* main, lines 273-277: request the LED line as an output, initially 0.
RequestLedOutput ==
    /\ program = "pwm-control"
    /\ mpc = "req_led"
    /\ \E ok \in BOOLEAN :
          IF ok
          THEN /\ led_line' = "requested"
               /\ line_value' = 0
               /\ mpc' = "req_button"
          ELSE /\ mpc' = "cleanup_chip"
               /\ UNCHANGED <<led_line, line_value>>
    /\ UNCHANGED <<program, line_fault, exampleVars, running, exit_status, chip, button_line,
                   current_mode, manual_brightness, last_button_state,
                   animation_counter, brightness, direction, phase,
                   strobe_state, strobe_counter, sdc_arg, duty_cycle, active,
                   mutex, threadVars, simpleVars, iters, presses, hist>>

\* main, lines 280-285.
RequestButtonInput ==
    /\ program = "pwm-control"
    /\ mpc = "req_button"
    /\ \E ok \in BOOLEAN :
          IF ok
          THEN /\ button_line' = "requested"
               /\ mpc' = "pwm_init"
          ELSE /\ mpc' = "release_led"
               /\ UNCHANGED button_line
    /\ UNCHANGED <<program, line_fault, exampleVars, running, exit_status, chip, led_line, line_value,
                   current_mode, manual_brightness, last_button_state,
                   animation_counter, brightness, direction, phase,
                   strobe_state, strobe_counter, sdc_arg, duty_cycle, active,
                   mutex, threadVars, simpleVars, iters, presses, hist>>

\* pwm_init, line 152: the initial duty cycle.
InitialDutyCycleUnset ==
    DUTY_MIN - 1

InitialDutyCycle ==
    0

\* pwm_init, lines 151-153: the fields are set before the thread exists.
PwmInitFields ==
    /\ program = "pwm-control"
    /\ mpc = "pwm_init"
    /\ duty_cycle' = InitialDutyCycle
    /\ active' = TRUE
    /\ hist' = [hist EXCEPT !.initialised = TRUE]
    /\ mpc' = "mutex_init"
    /\ UNCHANGED <<program, line_fault, exampleVars, running, exit_status, chip, led_line, button_line,
                   line_value, current_mode, manual_brightness,
                   last_button_state, animation_counter, brightness,
                   direction, phase, strobe_state, strobe_counter, sdc_arg,
                   mutex, threadVars, simpleVars, iters, presses>>

\* pwm_init, lines 156-159; on failure main goes to release_button (288-291).
PwmInitMutex ==
    /\ program = "pwm-control"
    /\ mpc = "mutex_init"
    /\ \E ok \in BOOLEAN :
          IF ok
          THEN /\ mutex' = "free"
               /\ mpc' = "thread_create"
          ELSE /\ mpc' = "release_button"
               /\ UNCHANGED mutex
    /\ UNCHANGED <<program, line_fault, exampleVars, running, exit_status, chip, led_line, button_line,
                   line_value, current_mode, manual_brightness,
                   last_button_state, animation_counter, brightness,
                   direction, phase, strobe_state, strobe_counter, sdc_arg,
                   duty_cycle, active, threadVars, simpleVars, iters, presses, hist>>

\* pwm_init, lines 162-168; on failure the mutex is destroyed and main goes to
\* release_button.
PwmInitThread ==
    /\ program = "pwm-control"
    /\ mpc = "thread_create"
    /\ \E ok \in BOOLEAN :
          IF ok
          THEN /\ tpc' = "loop"
               /\ mpc' = "loop"
               /\ UNCHANGED mutex
          ELSE /\ mutex' = "destroyed"
               /\ mpc' = "release_button"
               /\ UNCHANGED tpc
    /\ UNCHANGED <<program, line_fault, exampleVars, running, exit_status, chip, led_line, button_line,
                   line_value, current_mode, manual_brightness,
                   last_button_state, animation_counter, brightness,
                   direction, phase, strobe_state, strobe_counter, sdc_arg,
                   duty_cycle, active, duty, on_time_ns, off_time_ns,
                   simpleVars, iters, presses, hist>>

\* signal_handler, lines 67-70: SIGINT or SIGTERM, at any time after main
\* registered the handler (lines 248-249).
SignalHandler ==
    /\ program = "pwm-control"
    /\ mpc # "exit"
    /\ running
    /\ running' = FALSE
    /\ UNCHANGED <<program, line_fault, exampleVars, mainVars, line_value, duty_cycle, active, mutex,
                   threadVars, simpleVars, hist>>

\* --------------------------------------------- pwm-control: the control loop
\* main, line 307, when running is false: leave the loop (line 348).
LoopExit ==
    /\ program = "pwm-control"
    /\ mpc = "loop"
    /\ ~running
    /\ mpc' = "cleanup_stop"
    /\ UNCHANGED <<program, line_fault, exampleVars, running, resourceVars, line_value, loopVars,
                   animVars, sdc_arg, duty_cycle, active, mutex, threadVars,
                   simpleVars, hist>>

\* main, line 313: the mode after a button press.
NextMode(m) ==
    (m + 1) % MODE_COUNT

\* main, lines 315-317: const char *mode_names[], indexed by current_mode.
mode_names ==
    <<"Manual (50%)", "Breathing", "Sine Wave", "Strobe">>

\* The animation function each banner name (lines 298-301) stands for.
AnimationNamed(name) ==
    CASE name = "Manual (50%)" -> "manual"
      [] name = "Breathing"    -> "breathing"
      [] name = "Sine Wave"    -> "sine"
      [] name = "Strobe"       -> "strobe"
      [] OTHER                 -> "none"

\* The control loop iterations explored.
IterBound ==
    IF line_fault THEN MaxFaultIter ELSE MaxIter

\* main, lines 307-324 (and the usleep of line 345 that ended the previous
\* iteration): sample the button, change the mode on a falling edge, count
\* the iteration towards the next animation step.
MainPoll ==
    /\ program = "pwm-control"
    /\ mpc = "loop"
    /\ running
    /\ iters < IterBound
    /\ \E button_state \in {0, 1} :
          LET pressed == button_state = 0 /\ last_button_state = 1
          IN  /\ pressed => presses < MaxPresses
              /\ current_mode' = IF pressed THEN NextMode(current_mode)
                                 ELSE current_mode
              /\ presses' = IF pressed THEN presses + 1 ELSE presses
              /\ last_button_state' = button_state
              /\ hist' = IF pressed
                         THEN [hist EXCEPT
                                 !.printed = mode_names[NextMode(current_mode) + 1],
                                 !.ran = "none"]
                         ELSE hist
    /\ iters' = iters + 1
    /\ IF animation_counter + 1 >= ANIMATION_DIVIDER
       THEN /\ animation_counter' = 0
            /\ mpc' = "dispatch"
       ELSE /\ animation_counter' = animation_counter + 1
            /\ mpc' = "loop"
    /\ UNCHANGED <<program, line_fault, exampleVars, running, resourceVars, line_value,
                   manual_brightness, animVars, sdc_arg, duty_cycle, active,
                   mutex, threadVars, simpleVars>>

\* Where the driving flow continues after an animation step: main's control
\* loop (line 345), or the caller that drives the functions directly.
ReturnPc ==
    IF program = "pwm-control" THEN "loop" ELSE "call"

\* main, lines 327-329: case MODE_MANUAL.
DispatchManual ==
    /\ mpc = "dispatch"
    /\ current_mode = MODE_MANUAL
    /\ sdc_arg' = Clamp(manual_brightness)
    /\ hist' = [hist EXCEPT !.last_call = "manual", !.ran = "manual",
                            !.raw = manual_brightness]
    /\ mpc' = "sdc_lock"
    /\ UNCHANGED <<program, line_fault, exampleVars, running, resourceVars, line_value, loopVars,
                   animVars, duty_cycle, active, mutex, threadVars, simpleVars>>

\* main, lines 331-333 and breathing_animation, lines 188-203.
DispatchBreathing ==
    /\ mpc = "dispatch"
    /\ current_mode = MODE_BREATHING
    /\ LET n == BreathingNext(brightness, direction)
       IN  /\ brightness' = n[1]
           /\ direction' = n[2]
           /\ sdc_arg' = Clamp(n[1])
           /\ hist' = [hist EXCEPT !.last_call = "breathing", !.ran = "breathing",
                                   !.raw = n[1],
                                   !.breath_calls = @ + 1]
    /\ mpc' = "sdc_lock"
    /\ UNCHANGED <<program, line_fault, exampleVars, running, resourceVars, line_value, loopVars,
                   phase, strobe_state, strobe_counter, duty_cycle, active,
                   mutex, threadVars, simpleVars>>

\* main, lines 335-337 and sine_wave_animation, lines 206-220.  phase is
\* private to the driving flow, so its update is taken with the call.
DispatchSineWave ==
    /\ mpc = "dispatch"
    /\ current_mode = MODE_SINE_WAVE
    /\ sdc_arg' = Clamp(SineBrightness(phase))
    /\ hist' = [hist EXCEPT !.last_call = "sine", !.ran = "sine",
                            !.raw = SineBrightness(phase)]
    /\ phase' = PhaseNext(phase)
    /\ mpc' = "sdc_lock"
    /\ UNCHANGED <<program, line_fault, exampleVars, running, resourceVars, line_value, loopVars,
                   brightness, direction, strobe_state, strobe_counter,
                   duty_cycle, active, mutex, threadVars, simpleVars>>

\* main, lines 339-341 and strobe_animation, lines 223-232.
DispatchStrobe ==
    /\ mpc = "dispatch"
    /\ current_mode = MODE_STROBE
    /\ LET n == StrobeNext(strobe_state, strobe_counter)
           h == [hist EXCEPT !.last_call = "strobe", !.ran = "strobe",
                             !.strobe_calls = @ + 1]
       IN  /\ strobe_state' = n[1]
           /\ strobe_counter' = n[2]
           /\ IF n[3]
              THEN /\ sdc_arg' = Clamp(IF n[1] # 0 THEN 100 ELSE 0)
                   /\ hist' = [h EXCEPT !.raw = IF n[1] # 0 THEN 100 ELSE 0]
                   /\ mpc' = "sdc_lock"
              ELSE /\ mpc' = ReturnPc
                   /\ hist' = h
                   /\ UNCHANGED sdc_arg
    /\ UNCHANGED <<program, line_fault, exampleVars, running, resourceVars, line_value, loopVars,
                   brightness, direction, phase, duty_cycle, active, mutex,
                   threadVars, simpleVars>>

\* set_duty_cycle, line 138.
SdcLock ==
    /\ mpc = "sdc_lock"
    /\ mutex = "free"
    /\ mutex' = "main"
    /\ mpc' = "sdc_write"
    /\ UNCHANGED <<program, line_fault, exampleVars, running, resourceVars, line_value, loopVars,
                   animVars, sdc_arg, duty_cycle, active, threadVars, simpleVars, hist>>

\* set_duty_cycle, line 139.
SdcWrite ==
    /\ mpc = "sdc_write"
    /\ duty_cycle' = sdc_arg
    /\ hist' = LET h == [hist EXCEPT !.last_pub = hist.last_call,
                                      !.written_raw = hist.raw]
               IN  IF mutex # "main" /\ ThreadRunning
                   THEN Unlocked(h, "main", "duty_cycle", "write")
                   ELSE h
    /\ mpc' = "sdc_unlock"
    /\ UNCHANGED <<program, line_fault, exampleVars, running, resourceVars, line_value, loopVars,
                   animVars, sdc_arg, active, mutex, threadVars, simpleVars>>

\* set_duty_cycle, line 140, and the return to the control loop.
SdcUnlock ==
    /\ mpc = "sdc_unlock"
    /\ mutex' = "free"
    /\ mpc' = ReturnPc
    /\ UNCHANGED <<program, line_fault, exampleVars, running, resourceVars, line_value, loopVars,
                   animVars, sdc_arg, duty_cycle, active, threadVars, simpleVars, hist>>

\* ------------------------------------------------- pwm-control: the cleanup
\* pwm_cleanup, line 176.
CleanupStop ==
    /\ program = "pwm-control"
    /\ mpc = "cleanup_stop"
    /\ active' = FALSE
    /\ hist' = IF ThreadRunning
               THEN Unlocked(hist, "main", "active", "write")
               ELSE hist
    /\ mpc' = "join"
    /\ UNCHANGED <<program, line_fault, exampleVars, running, resourceVars, line_value, loopVars,
                   animVars, sdc_arg, duty_cycle, mutex, threadVars, simpleVars>>

\* pthread_join returns once the thread has returned.
JoinReturnsEarly ==
    TRUE

JoinReturns ==
    tpc = "done"

\* pwm_cleanup, line 177.
CleanupJoin ==
    /\ program = "pwm-control"
    /\ mpc = "join"
    /\ JoinReturns
    /\ mpc' = "mutex_destroy"
    /\ UNCHANGED <<program, line_fault, exampleVars, running, resourceVars, line_value, loopVars,
                   animVars, sdc_arg, duty_cycle, active, mutex, threadVars,
                   simpleVars, hist>>

\* pwm_cleanup, line 180.
CleanupMutexDestroy ==
    /\ program = "pwm-control"
    /\ mpc = "mutex_destroy"
    /\ mutex' = "destroyed"
    /\ mpc' = "release_button"
    /\ UNCHANGED <<program, line_fault, exampleVars, running, resourceVars, line_value, loopVars,
                   animVars, sdc_arg, duty_cycle, active, threadVars, simpleVars, hist>>

\* main, lines 353-354.
ReleaseButton ==
    /\ program = "pwm-control"
    /\ mpc = "release_button"
    /\ button_line' = "released"
    /\ mpc' = "release_led"
    /\ UNCHANGED <<program, line_fault, exampleVars, running, exit_status, chip, led_line, line_value,
                   loopVars, animVars, sdc_arg, duty_cycle, active, mutex,
                   threadVars, simpleVars, hist>>

\* main, lines 355-356.
ReleaseLed ==
    /\ program = "pwm-control"
    /\ mpc = "release_led"
    /\ led_line' = "released"
    /\ mpc' = "cleanup_chip"
    /\ UNCHANGED <<program, line_fault, exampleVars, running, exit_status, chip, button_line,
                   line_value, loopVars, animVars, sdc_arg, duty_cycle,
                   active, mutex, threadVars, simpleVars, hist>>

\* main, lines 357-361.
CloseChip ==
    /\ program = "pwm-control"
    /\ mpc = "cleanup_chip"
    /\ chip' = "closed"
    /\ exit_status' = 0
    /\ mpc' = "exit"
    /\ UNCHANGED <<program, line_fault, exampleVars, running, led_line, button_line, line_value,
                   loopVars, animVars, sdc_arg, duty_cycle, active, mutex,
                   threadVars, simpleVars, hist>>

\* ------------------------------------------------- pwm-control: pwm_thread
\* A thread step taken after pwm_cleanup stored active = false is counted.
Step(h) ==
    IF active THEN h ELSE [h EXCEPT !.stop_steps = @ + 1]

\* gpiod_line_set_value(pwm->line, v) by the thread: the level of the line
\* when the line is held, and a use after release otherwise.
LineAfterWrite(v) ==
    IF led_line = "requested" THEN v ELSE line_value

WriteHist(h, v) ==
    [h EXCEPT !.last_write = v,
              !.wrote1 = @ \/ v = 1,
              !.wrote0 = @ \/ v = 0,
              !.use_after_release = @ \/ led_line # "requested"]

\* The results gpiod_line_set_value can give: 0, and -1 on a line whose
\* writes can fail.
SetValueResults ==
    IF line_fault THEN {0, -1} ELSE {0}

\* pwm_thread, lines 111, 117 and 123: the result of gpiod_line_set_value is
\* discarded; the number of lines printed for a result.
LogLinesOnError(ret) ==
    IF ret < 0 THEN 1 ELSE 0

LogLines(ret) ==
    0

\* The level of the line after a write of v that returned ret.
LineAfterResult(v, ret) ==
    IF ret = 0 THEN LineAfterWrite(v) ELSE line_value

\* The history after a write of v that returned ret.
ResultHist(h, v, ret) ==
    IF ret = 0
    THEN [WriteHist(h, v) EXCEPT !.log_lines = @ + LogLines(ret)]
    ELSE [h EXCEPT !.write_failed = TRUE, !.log_lines = @ + LogLines(ret)]

\* nano_sleep(ns): a request of length 0 is recorded.
SleepHist(h, ns) ==
    [h EXCEPT !.zero_sleep = @ \/ ns <= 0]

\* pwm_thread, line 99: the loop condition, read without the mutex.
ThreadLoop ==
    /\ tpc = "loop"
    /\ tpc' = IF active THEN "lock" ELSE "final"
    /\ hist' = Unlocked([Step(hist) EXCEPT !.reads = 0, !.read_val = -1,
                                            !.used_high = -1, !.used_low = -1,
                                            !.wrote1 = FALSE, !.wrote0 = FALSE],
                        "thread", "active", "read")
    /\ UNCHANGED <<program, line_fault, exampleVars, running, mainVars, line_value, duty_cycle, active,
                   mutex, duty, on_time_ns, off_time_ns, simpleVars>>

\* pwm_thread, line 101.
ThreadLock ==
    /\ tpc = "lock"
    /\ mutex \in {"free", "destroyed"}
    /\ mutex' = IF mutex = "free" THEN "thread" ELSE mutex
    /\ hist' = [Step(hist) EXCEPT !.lock_after_destroy = @ \/ mutex = "destroyed"]
    /\ tpc' = "read"
    /\ UNCHANGED <<program, line_fault, exampleVars, running, mainVars, line_value, duty_cycle, active,
                   duty, on_time_ns, off_time_ns, simpleVars>>

\* pwm_thread, line 102.
ThreadRead ==
    /\ tpc = "read"
    /\ duty' = duty_cycle
    /\ hist' = LET h == [Step(hist) EXCEPT !.reads = @ + 1,
                                           !.read_val = duty_cycle,
                                           !.read_raw = hist.written_raw,
                                           !.read_locked = @ /\ mutex = "thread"]
               IN  IF mutex = "thread" THEN h
                   ELSE Unlocked(h, "thread", "duty_cycle", "read")
    /\ tpc' = "unlock"
    /\ UNCHANGED <<program, line_fault, exampleVars, running, mainVars, line_value, duty_cycle, active,
                   mutex, on_time_ns, off_time_ns, simpleVars>>

\* pwm_thread, line 103.
ThreadUnlock ==
    /\ tpc = "unlock"
    /\ mutex' = IF mutex = "thread" THEN "free" ELSE mutex
    /\ hist' = Step(hist)
    /\ tpc' = "calc"
    /\ UNCHANGED <<program, line_fault, exampleVars, running, mainVars, line_value, duty_cycle, active,
                   duty, on_time_ns, off_time_ns, simpleVars>>

\* pwm_thread, lines 106-107.
ThreadCalc ==
    /\ tpc = "calc"
    /\ on_time_ns' = OnTimeNs(duty)
    /\ off_time_ns' = OffTimeNs(OnTimeNs(duty))
    /\ hist' = Step(hist)
    /\ tpc' = "high"
    /\ UNCHANGED <<program, line_fault, exampleVars, running, mainVars, line_value, duty_cycle, active,
                   mutex, duty, simpleVars>>

\* pwm_thread, line 109: the value tested by "duty > 0".
HighPhaseDuty ==
    duty

\* pwm_thread, line 109: the condition of the high phase.
HighPhase(d) ==
    d > 0

\* pwm_thread, lines 109-113.
ThreadHigh ==
    /\ tpc = "high"
    /\ LET d == HighPhaseDuty
           h == [Step(hist) EXCEPT !.used_high = d]
       IN  IF HighPhase(d)
           THEN \E ret \in SetValueResults :
                   /\ line_value' = LineAfterResult(1, ret)
                   /\ hist' = SleepHist(ResultHist(h, 1, ret), on_time_ns)
           ELSE /\ hist' = h
                /\ UNCHANGED line_value
    /\ tpc' = "low"
    /\ UNCHANGED <<program, line_fault, exampleVars, running, mainVars, duty_cycle, active, mutex,
                   duty, on_time_ns, off_time_ns, simpleVars>>

\* pwm_thread, line 115: the value tested by "duty < 100".
LowPhaseDutyReread ==
    duty_cycle

LowPhaseDuty ==
    duty

\* pwm_thread, line 115: the condition of the low phase.
LowPhaseInclusive(d) ==
    d <= 100

LowPhase(d) ==
    d < 100

\* pwm_thread, lines 115-120: the low phase ends the cycle.
ThreadLow ==
    /\ tpc = "low"
    /\ LET d == LowPhaseDuty
           h == [Step(hist) EXCEPT !.used_low = d,
                                   !.stop_cycles = IF active THEN @ ELSE @ + 1]
       IN  IF LowPhase(d)
           THEN \E ret \in SetValueResults :
                   /\ line_value' = LineAfterResult(0, ret)
                   /\ hist' = SleepHist(ResultHist(h, 0, ret), off_time_ns)
           ELSE /\ hist' = h
                /\ UNCHANGED line_value
    /\ tpc' = "loop"
    /\ UNCHANGED <<program, line_fault, exampleVars, running, mainVars, duty_cycle, active, mutex,
                   duty, on_time_ns, off_time_ns, simpleVars>>

\* pwm_thread, line 123: the level the thread leaves on the line.
ExitLevelUntouched(level) ==
    level

ExitLevel(level) ==
    0

\* pwm_thread, lines 122-124.
ThreadFinal ==
    /\ tpc = "final"
    /\ \E ret \in SetValueResults :
          /\ line_value' = LineAfterResult(ExitLevel(line_value), ret)
          /\ hist' = ResultHist(Step(hist), ExitLevel(line_value), ret)
    /\ tpc' = "done"
    /\ UNCHANGED <<program, line_fault, exampleVars, running, mainVars, duty_cycle, active, mutex,
                   duty, on_time_ns, off_time_ns, simpleVars>>


\* ------------------------------------------------------------- simple-pwm
SIMPLE_PWM_FREQUENCY == 1000
US_PER_SEC == 1000000
SIMPLE_STEP == 5
SIMPLE_CYCLES_PER_STEP == 100

\* simple-pwm main, line 62.
period_us ==
    US_PER_SEC \div SIMPLE_PWM_FREQUENCY

\* simple-pwm main, line 71.
SimpleOnTime(b) ==
    CDiv(MulInt32(period_us, b), 100)

\* simple-pwm main, line 72.
SimpleOffTime(on) ==
    period_us - on

\* simple-pwm main, lines 89-96: the next <<brightness, direction>>.
SimpleBrightnessNext(b, dir) ==
    LET nb == b + dir * SIMPLE_STEP
    IN  IF nb >= 100 THEN <<100, -1>>
        ELSE IF nb <= 0 THEN <<0, 1>>
        ELSE <<nb, dir>>

pwmVars == <<duty_cycle, active, mutex, threadVars, sdc_arg, current_mode,
             manual_brightness, last_button_state, animation_counter, phase,
             strobe_state, strobe_counter, iters, presses, button_line>>

\* simple-pwm main, lines 36-40.
SimpleOpenChip ==
    /\ program = "simple-pwm"
    /\ mpc = "s_open_chip"
    /\ \E ok \in BOOLEAN :
          IF ok
          THEN /\ chip' = "open"
               /\ mpc' = "s_get_line"
               /\ UNCHANGED exit_status
          ELSE /\ mpc' = "exit"
               /\ exit_status' = 1
               /\ UNCHANGED chip
    /\ UNCHANGED <<program, line_fault, exampleVars, running, led_line, line_value, brightness,
                   direction, simpleVars, pwmVars, hist>>

\* simple-pwm main, lines 43-48.
SimpleGetLine ==
    /\ program = "simple-pwm"
    /\ mpc = "s_get_line"
    /\ \E ok \in BOOLEAN :
          IF ok
          THEN /\ led_line' = "got"
               /\ mpc' = "s_request"
               /\ UNCHANGED <<chip, exit_status>>
          ELSE /\ chip' = "closed"
               /\ exit_status' = 1
               /\ mpc' = "exit"
               /\ UNCHANGED led_line
    /\ UNCHANGED <<program, line_fault, exampleVars, running, line_value, brightness, direction,
                   simpleVars, pwmVars, hist>>

\* simple-pwm main, lines 51-55.
SimpleRequestOutput ==
    /\ program = "simple-pwm"
    /\ mpc = "s_request"
    /\ \E ok \in BOOLEAN :
          IF ok
          THEN /\ led_line' = "requested"
               /\ line_value' = 0
               /\ mpc' = "s_loop"
               /\ UNCHANGED <<chip, exit_status>>
          ELSE /\ chip' = "closed"
               /\ exit_status' = 1
               /\ mpc' = "exit"
               /\ UNCHANGED <<led_line, line_value>>
    /\ UNCHANGED <<program, line_fault, exampleVars, running, brightness, direction, simpleVars,
                   pwmVars, hist>>

\* simple-pwm main, lines 68-72: the loop condition and the two times.
SimpleCalc ==
    /\ program = "simple-pwm"
    /\ mpc = "s_loop"
    /\ running
    /\ on_time' = SimpleOnTime(brightness)
    /\ off_time' = SimpleOffTime(SimpleOnTime(brightness))
    /\ hist' = [hist EXCEPT !.wrote1 = FALSE, !.wrote0 = FALSE]
    /\ mpc' = "s_high"
    /\ UNCHANGED <<program, line_fault, exampleVars, running, resourceVars, line_value, brightness,
                   direction, cycle_count, pwmVars>>

\* simple-pwm main, line 74: the condition of the high phase.
SimpleHighPhase(on) ==
    on > 0

\* simple-pwm main, lines 74-77.
SimpleHigh ==
    /\ program = "simple-pwm"
    /\ mpc = "s_high"
    /\ IF SimpleHighPhase(on_time)
       THEN /\ line_value' = LineAfterWrite(1)
            /\ hist' = SleepHist(WriteHist(hist, 1), on_time)
       ELSE UNCHANGED <<line_value, hist>>
    /\ mpc' = "s_low"
    /\ UNCHANGED <<program, line_fault, exampleVars, running, resourceVars, brightness, direction,
                   simpleVars, pwmVars>>

\* simple-pwm main, line 79: the condition of the low phase.
SimpleLowPhaseInclusive(off) ==
    off >= 0

SimpleLowPhase(off) ==
    off > 0

\* simple-pwm main, lines 79-82.
SimpleLow ==
    /\ program = "simple-pwm"
    /\ mpc = "s_low"
    /\ IF SimpleLowPhase(off_time)
       THEN /\ line_value' = LineAfterWrite(0)
            /\ hist' = SleepHist(WriteHist(hist, 0), off_time)
       ELSE UNCHANGED <<line_value, hist>>
    /\ mpc' = "s_update"
    /\ UNCHANGED <<program, line_fault, exampleVars, running, resourceVars, brightness, direction,
                   simpleVars, pwmVars>>

\* simple-pwm main, lines 85-100: every 100 cycles the brightness moves.
SimpleUpdate ==
    /\ program = "simple-pwm"
    /\ mpc = "s_update"
    /\ IF cycle_count + 1 >= SIMPLE_CYCLES_PER_STEP
       THEN /\ cycle_count' = 0
            /\ brightness' = SimpleBrightnessNext(brightness, direction)[1]
            /\ direction' = SimpleBrightnessNext(brightness, direction)[2]
       ELSE /\ cycle_count' = cycle_count + 1
            /\ UNCHANGED <<brightness, direction>>
    /\ mpc' = "s_loop"
    /\ UNCHANGED <<program, line_fault, exampleVars, running, resourceVars, line_value, on_time,
                   off_time, pwmVars, hist>>

\* simple-pwm main, lines 68 and 103: the loop ends when running is false.
SimpleLoopExit ==
    /\ program = "simple-pwm"
    /\ mpc = "s_loop"
    /\ ~running
    /\ mpc' = "s_cleanup"
    /\ UNCHANGED <<program, line_fault, exampleVars, running, resourceVars, line_value, brightness,
                   direction, simpleVars, pwmVars, hist>>

\* simple-pwm main, lines 105-110.
SimpleCleanup ==
    /\ program = "simple-pwm"
    /\ mpc = "s_cleanup"
    /\ line_value' = LineAfterWrite(0)
    /\ hist' = WriteHist(hist, 0)
    /\ led_line' = "released"
    /\ chip' = "closed"
    /\ exit_status' = 0
    /\ mpc' = "exit"
    /\ UNCHANGED <<program, line_fault, exampleVars, running, brightness, direction, simpleVars,
                   pwmVars>>

\* simple-pwm signal_handler, lines 23-25 (SIGINT, registered at line 33).
SimpleSignalHandler ==
    /\ program = "simple-pwm"
    /\ mpc # "exit"
    /\ running
    /\ running' = FALSE
    /\ UNCHANGED <<program, line_fault, exampleVars, mainVars, line_value, duty_cycle, active, mutex,
                   threadVars, simpleVars, hist>>

SimplePwmMain ==
    \/ SimpleOpenChip
    \/ SimpleGetLine
    \/ SimpleRequestOutput
    \/ SimpleCalc
    \/ SimpleHigh
    \/ SimpleLow
    \/ SimpleUpdate
    \/ SimpleLoopExit
    \/ SimpleCleanup
    \/ SimpleSignalHandler

\* ------------------------------------------------------------- hello-world
\* gpiod_line_release: releases a requested line; a line that was never
\* requested is left as it is.
LineRelease(l) ==
    CASE l = "requested" -> "released"
      [] l = "released"  -> "released_twice"
      [] OTHER           -> l

\* gpiod_chip_close.
ChipClose(c) ==
    IF c = "open" THEN "closed" ELSE "closed_twice"

\* State of the other programs that hello-world does not have.
helloFrame == <<current_mode, manual_brightness, last_button_state,
                animation_counter, animVars, sdc_arg, duty_cycle, active,
                mutex, threadVars, simpleVars, presses, eventVars>>

AcqFailed(h) ==
    [h EXCEPT !.acq_failed = TRUE]

\* hello-world main, lines 62-69.
HelloOpenChip ==
    /\ program = "hello-world"
    /\ mpc = "h_open_chip"
    /\ \E ok \in BOOLEAN :
          IF ok
          THEN /\ chip' = "open"
               /\ mpc' = "h_get_led"
               /\ UNCHANGED <<exit_status, hist>>
          ELSE /\ exit_status' = 1
               /\ mpc' = "exit"
               /\ hist' = AcqFailed(hist)
               /\ UNCHANGED chip
    /\ UNCHANGED <<program, line_fault, running, led_line, button_line, line_value,
                   helloVars, iters, helloFrame>>

\* hello-world main, lines 73-78.
HelloGetLedLine ==
    /\ program = "hello-world"
    /\ mpc = "h_get_led"
    /\ \E ok \in BOOLEAN :
          IF ok
          THEN /\ led_line' = "got"
               /\ mpc' = "h_get_button"
               /\ UNCHANGED hist
          ELSE /\ mpc' = "h_close_chip"
               /\ hist' = AcqFailed(hist)
               /\ UNCHANGED led_line
    /\ UNCHANGED <<program, line_fault, running, exit_status, chip, button_line,
                   line_value, helloVars, iters, helloFrame>>

\* hello-world main, lines 80-85.
HelloGetButtonLine ==
    /\ program = "hello-world"
    /\ mpc = "h_get_button"
    /\ \E ok \in BOOLEAN :
          IF ok
          THEN /\ button_line' = "got"
               /\ mpc' = "h_req_led"
               /\ UNCHANGED hist
          ELSE /\ mpc' = "h_close_chip"
               /\ hist' = AcqFailed(hist)
               /\ UNCHANGED button_line
    /\ UNCHANGED <<program, line_fault, running, exit_status, chip, led_line, line_value,
                   helloVars, iters, helloFrame>>

\* hello-world main, lines 90-95.
HelloRequestLedOutput ==
    /\ program = "hello-world"
    /\ mpc = "h_req_led"
    /\ \E ok \in BOOLEAN :
          IF ok
          THEN /\ led_line' = "requested"
               /\ line_value' = 0
               /\ mpc' = "h_req_button"
               /\ UNCHANGED hist
          ELSE /\ mpc' = "h_release_line"
               /\ hist' = AcqFailed(hist)
               /\ UNCHANGED <<led_line, line_value>>
    /\ UNCHANGED <<program, line_fault, running, exit_status, chip, button_line,
                   helloVars, iters, helloFrame>>

\* hello-world main, lines 100-106.
HelloRequestButtonInput ==
    /\ program = "hello-world"
    /\ mpc = "h_req_button"
    /\ \E ok \in BOOLEAN :
          IF ok
          THEN /\ button_line' = "requested"
               /\ mpc' = "h_loop"
               /\ UNCHANGED hist
          ELSE /\ mpc' = "h_release_line"
               /\ hist' = AcqFailed(hist)
               /\ UNCHANGED button_line
    /\ UNCHANGED <<program, line_fault, running, exit_status, chip, led_line, line_value,
                   helloVars, iters, helloFrame>>

\* hello-world main, lines 117-151: one iteration of the polling loop.  The
\* two branches of the if each have their own static last_state.
HelloPoll ==
    /\ program = "hello-world"
    /\ mpc = "h_loop"
    /\ running
    /\ iters < MaxIter
    /\ \E button_state \in {0, 1} :
          /\ IF button_state = 0
             THEN /\ line_value' = LineAfterWrite(1)
                  /\ last_state_pressed' = button_state
                  /\ UNCHANGED last_state_released
                  /\ hist' = [hist EXCEPT
                         !.msg = IF last_state_pressed # button_state
                                 THEN "Button pressed - LED ON" ELSE "none",
                         !.prev_sample = hist.sample,
                         !.sample = button_state,
                         !.polled = TRUE,
                         !.entered_loop = TRUE]
             ELSE /\ line_value' = LineAfterWrite(0)
                  /\ last_state_released' = button_state
                  /\ UNCHANGED last_state_pressed
                  /\ hist' = [hist EXCEPT
                         !.msg = IF last_state_released # button_state
                                 THEN "Button released - LED OFF" ELSE "none",
                         !.prev_sample = hist.sample,
                         !.sample = button_state,
                         !.polled = TRUE,
                         !.entered_loop = TRUE]
    /\ iters' = iters + 1
    /\ UNCHANGED <<program, line_fault, mpc, running, exit_status, chip, led_line,
                   button_line, helloFrame>>

\* hello-world main, lines 117 and 153: while (running) ends.
HelloLoopExit ==
    /\ program = "hello-world"
    /\ mpc = "h_loop"
    /\ ~running
    /\ mpc' = "h_release_line"
    /\ UNCHANGED <<program, line_fault, running, exit_status, chip, led_line, button_line,
                   line_value, helloVars, iters, hist, helloFrame>>

\* hello-world main, lines 158-161: release_line.
HelloReleaseLine ==
    /\ program = "hello-world"
    /\ mpc = "h_release_line"
    /\ led_line' = LineRelease(led_line)
    /\ button_line' = LineRelease(button_line)
    /\ mpc' = "h_close_chip"
    /\ UNCHANGED <<program, line_fault, running, exit_status, chip, line_value,
                   helloVars, iters, hist, helloFrame>>

\* hello-world main, lines 163-167: close_chip.
HelloCloseChip ==
    /\ program = "hello-world"
    /\ mpc = "h_close_chip"
    /\ chip' = ChipClose(chip)
    /\ exit_status' = 0
    /\ mpc' = "exit"
    /\ UNCHANGED <<program, line_fault, running, led_line, button_line, line_value,
                   helloVars, iters, hist, helloFrame>>

\* hello-world signal_handler, lines 40-43 (SIGINT, registered at line 60).
HelloSignalHandler ==
    /\ program = "hello-world"
    /\ mpc # "exit"
    /\ running
    /\ running' = FALSE
    /\ UNCHANGED <<program, line_fault, mpc, exit_status, chip, led_line, button_line,
                   line_value, helloVars, iters, hist, helloFrame>>

HelloWorldMain ==
    \/ HelloOpenChip
    \/ HelloGetLedLine
    \/ HelloGetButtonLine
    \/ HelloRequestLedOutput
    \/ HelloRequestButtonInput
    \/ HelloPoll
    \/ HelloLoopExit
    \/ HelloReleaseLine
    \/ HelloCloseChip
    \/ HelloSignalHandler

\* --------------------------------------------------------- gpio-interrupts
\* State of the other programs that gpio-interrupts does not have.
gpioFrame == <<current_mode, manual_brightness, last_button_state,
               animation_counter, animVars, sdc_arg, duty_cycle, active,
               mutex, threadVars, simpleVars, presses, helloVars>>

\* gpio_init returns -1 and main returns 1 (lines 154-157); gpio_cleanup is
\* not called on this path.
GpioInitFailed ==
    /\ exit_status' = 1
    /\ mpc' = "exit"
    /\ hist' = AcqFailed(hist)

\* gpio_init, lines 61-68.
GpioInitOpenChip ==
    /\ program = "gpio-interrupts"
    /\ mpc = "g_open_chip"
    /\ \E ok \in BOOLEAN :
          IF ok
          THEN /\ chip' = "open"
               /\ mpc' = "g_get_lines"
               /\ UNCHANGED <<exit_status, hist>>
          ELSE /\ GpioInitFailed
               /\ UNCHANGED chip
    /\ UNCHANGED <<program, line_fault, running, led_line, button_line, line_value,
                   eventVars, iters, gpioFrame>>

\* gpio_init, lines 71-78: the three lines are fetched, then tested together.
GpioInitGetLines ==
    /\ program = "gpio-interrupts"
    /\ mpc = "g_get_lines"
    /\ \E led_ok \in BOOLEAN, b1_ok \in BOOLEAN, b2_ok \in BOOLEAN :
          /\ led_line' = IF led_ok THEN "got" ELSE "none"
          /\ button_line' = IF b1_ok THEN "got" ELSE "none"
          /\ button2_line' = IF b2_ok THEN "got" ELSE "none"
          /\ IF led_ok /\ b1_ok /\ b2_ok
             THEN /\ mpc' = "g_req_led"
                  /\ UNCHANGED <<exit_status, hist>>
             ELSE GpioInitFailed
    /\ UNCHANGED <<program, line_fault, running, chip, line_value, button1_count,
                   button2_count, led_state, iters, gpioFrame>>

\* gpio_init, lines 81-84.
GpioInitRequestLed ==
    /\ program = "gpio-interrupts"
    /\ mpc = "g_req_led"
    /\ \E ok \in BOOLEAN :
          IF ok
          THEN /\ led_line' = "requested"
               /\ line_value' = 0
               /\ mpc' = "g_req_button1"
               /\ UNCHANGED <<exit_status, hist>>
          ELSE /\ GpioInitFailed
               /\ UNCHANGED <<led_line, line_value>>
    /\ UNCHANGED <<program, line_fault, running, chip, button_line, eventVars, iters,
                   gpioFrame>>

\* gpio_init, lines 89-93.
GpioInitRequestButton1 ==
    /\ program = "gpio-interrupts"
    /\ mpc = "g_req_button1"
    /\ \E ok \in BOOLEAN :
          IF ok
          THEN /\ button_line' = "requested"
               /\ mpc' = "g_req_button2"
               /\ UNCHANGED <<exit_status, hist>>
          ELSE /\ GpioInitFailed
               /\ UNCHANGED button_line
    /\ UNCHANGED <<program, line_fault, running, chip, led_line, line_value, eventVars,
                   iters, gpioFrame>>

\* gpio_init, lines 95-101, and main, lines 159-167.
GpioInitRequestButton2 ==
    /\ program = "gpio-interrupts"
    /\ mpc = "g_req_button2"
    /\ \E ok \in BOOLEAN :
          IF ok
          THEN /\ button2_line' = "requested"
               /\ mpc' = "g_loop"
               /\ UNCHANGED <<exit_status, hist>>
          ELSE /\ GpioInitFailed
               /\ UNCHANGED button2_line
    /\ UNCHANGED <<program, line_fault, running, chip, led_line, button_line, line_value,
                   button1_count, button2_count, led_state, iters, gpioFrame>>

\* main, lines 170-188: while (running), gpiod_line_event_wait_bulk.  A
\* negative result leaves the loop, 0 is a timeout, a positive one goes on to
\* the buttons.
EventWaitBulk ==
    /\ program = "gpio-interrupts"
    /\ mpc = "g_loop"
    /\ running
    /\ iters < MaxWaits
    /\ \E ret \in {-1, 0, 1} :
          mpc' = IF ret < 0 THEN "g_stats"
                 ELSE IF ret = 0 THEN "g_loop"
                 ELSE "g_button1"
    /\ iters' = iters + 1
    /\ hist' = [hist EXCEPT !.entered_loop = TRUE]
    /\ UNCHANGED <<program, line_fault, running, exit_status, chip, led_line, button_line,
                   line_value, eventVars, gpioFrame>>

\* handle_button_event, line 124: gpiod_line_event_read(...) == 0.
EventRead(rd) ==
    rd = 0

\* handle_button_event, line 134: led_state = !led_state.
ToggleStuck(s) ==
    1

Toggle(s) ==
    IF s = 0 THEN 1 ELSE 0

\* main, lines 192-207, and handle_button_event, lines 119-137, for one
\* button: the line's fd is valid because the line was requested for events;
\* wait is the result of gpiod_line_event_wait, rd that of
\* gpiod_line_event_read.  Gives <<count, led_state, line level, handled>>.
HandleButtonEvent(count, wait, rd) ==
    IF wait > 0 /\ EventRead(rd)
    THEN <<count + 1, Toggle(led_state), LineAfterWrite(Toggle(led_state)), TRUE>>
    ELSE <<count, led_state, line_value, FALSE>>

\* main, lines 192-199: button 1.
HandleButton1 ==
    /\ program = "gpio-interrupts"
    /\ mpc = "g_button1"
    /\ \E wait \in {-1, 0, 1}, rd \in {-1, 0} :
          LET r == HandleButtonEvent(button1_count, wait, rd)
          IN  /\ button1_count' = r[1]
              /\ led_state' = r[2]
              /\ line_value' = r[3]
              /\ hist' = IF wait > 0
                         THEN IF rd = 0
                              THEN [hist EXCEPT !.ev1 = @ + 1]
                              ELSE [hist EXCEPT !.read_failed = TRUE]
                         ELSE hist
    /\ mpc' = "g_button2"
    /\ UNCHANGED <<program, line_fault, running, exit_status, chip, led_line, button_line,
                   button2_line, button2_count, iters, gpioFrame>>

\* main, lines 201-207: button 2.
HandleButton2 ==
    /\ program = "gpio-interrupts"
    /\ mpc = "g_button2"
    /\ \E wait \in {-1, 0, 1}, rd \in {-1, 0} :
          LET r == HandleButtonEvent(button2_count, wait, rd)
          IN  /\ button2_count' = r[1]
              /\ led_state' = r[2]
              /\ line_value' = r[3]
              /\ hist' = IF wait > 0
                         THEN IF rd = 0
                              THEN [hist EXCEPT !.ev2 = @ + 1]
                              ELSE [hist EXCEPT !.read_failed = TRUE]
                         ELSE hist
    /\ mpc' = "g_loop"
    /\ UNCHANGED <<program, line_fault, running, exit_status, chip, led_line, button_line,
                   button2_line, button1_count, iters, gpioFrame>>

\* main, lines 170 and 210-213: while (running) ends.
GpioLoopExit ==
    /\ program = "gpio-interrupts"
    /\ mpc = "g_loop"
    /\ ~running
    /\ mpc' = "g_stats"
    /\ UNCHANGED <<program, line_fault, running, exit_status, chip, led_line, button_line,
                   line_value, eventVars, iters, hist, gpioFrame>>

\* main, lines 210-218, and gpio_cleanup, lines 108-113: every pointer of
\* the context is non-NULL here.
GpioCleanup ==
    /\ program = "gpio-interrupts"
    /\ mpc = "g_stats"
    /\ led_line' = LineRelease(led_line)
    /\ button_line' = LineRelease(button_line)
    /\ button2_line' = LineRelease(button2_line)
    /\ chip' = ChipClose(chip)
    /\ exit_status' = 0
    /\ mpc' = "exit"
    /\ UNCHANGED <<program, line_fault, running, line_value, button1_count,
                   button2_count, led_state, iters, hist, gpioFrame>>

\* gpio-interrupts signal_handler, lines 47-50 (SIGINT and SIGTERM).
GpioSignalHandler ==
    /\ program = "gpio-interrupts"
    /\ mpc # "exit"
    /\ running
    /\ running' = FALSE
    /\ UNCHANGED <<program, line_fault, mpc, exit_status, chip, led_line, button_line,
                   line_value, eventVars, iters, hist, gpioFrame>>

GpioInterruptsMain ==
    \/ GpioInitOpenChip
    \/ GpioInitGetLines
    \/ GpioInitRequestLed
    \/ GpioInitRequestButton1
    \/ GpioInitRequestButton2
    \/ EventWaitBulk
    \/ HandleButton1
    \/ HandleButton2
    \/ GpioLoopExit
    \/ GpioCleanup
    \/ GpioSignalHandler

\* ---------------------------------------------------------------- test-gpio
\* State of the other programs that test-gpio does not have.
testFrame == <<led_line, button_line, line_value, iters, hist, helloVars,
               gpioFrame, eventVars>>

\* test-gpio main, lines 16-21.
TestOpenChip ==
    /\ program = "test-gpio"
    /\ mpc = "t_open_chip"
    /\ \E ok \in BOOLEAN :
          IF ok
          THEN /\ chip' = "open"
               /\ mpc' = "t_probe"
               /\ UNCHANGED exit_status
          ELSE /\ exit_status' = 1
               /\ mpc' = "exit"
               /\ UNCHANGED chip
    /\ UNCHANGED <<program, line_fault, running, testFrame>>

\* test-gpio main, lines 23-43: the lines are looked up, never requested.
TestProbeAndClose ==
    /\ program = "test-gpio"
    /\ mpc = "t_probe"
    /\ chip' = ChipClose(chip)
    /\ exit_status' = 0
    /\ mpc' = "exit"
    /\ UNCHANGED <<program, line_fault, running, testFrame>>

TestGpioMain ==
    \/ TestOpenChip
    \/ TestProbeAndClose

\* ------------------------------------------------------------ specification
PwmControlMain ==
    \/ OpenChip
    \/ GetLedLine
    \/ GetButtonLine
    \/ RequestLedOutput
    \/ RequestButtonInput
    \/ PwmInitFields
    \/ PwmInitMutex
    \/ PwmInitThread
    \/ LoopExit
    \/ MainPoll
    \/ DispatchManual
    \/ DispatchBreathing
    \/ DispatchSineWave
    \/ DispatchStrobe
    \/ SdcLock
    \/ SdcWrite
    \/ SdcUnlock
    \/ CleanupStop
    \/ CleanupJoin
    \/ CleanupMutexDestroy
    \/ ReleaseButton
    \/ ReleaseLed
    \/ CloseChip

\* One generation cycle: the body of the while loop, lines 99-120.
PwmThreadCycle ==
    \/ ThreadLoop
    \/ ThreadLock
    \/ ThreadRead
    \/ ThreadUnlock
    \/ ThreadCalc
    \/ ThreadHigh
    \/ ThreadLow

PwmThread ==
    \/ PwmThreadCycle
    \/ ThreadFinal

Next ==
    \/ PwmControlMain
    \/ PwmThread
    \/ SignalHandler
    \/ SimplePwmMain
    \/ HelloWorldMain
    \/ GpioInterruptsMain
    \/ TestGpioMain

Spec ==
    Init /\ [][Next]_vars

\* ------------------------------------------- the functions, called directly
\* Arguments given to set_duty_cycle when it is called directly.
DutyInputs ==
    {INT_MIN, -5, -1, 0, 1, 50, 99, 100, 101, 150, INT_MAX}

\* The channel after a successful pwm_init (lines 151-168), its line held.
ChannelWith(d) ==
    /\ chip = "open"
    /\ led_line = "requested"
    /\ button_line = "requested"
    /\ duty_cycle = d
    /\ active = TRUE
    /\ mutex = "free"
    /\ hist = [HistInit EXCEPT !.initialised = TRUE]

ChannelCreated ==
    ChannelWith(InitialDutyCycle)

\* A caller of set_duty_cycle, with the generation thread started.
InitAccessor ==
    /\ StartState("accessor", "call")
    /\ ChannelCreated
    /\ tpc = "loop"

\* A caller of the animation functions (the switch of lines 326-342 without
\* the polling between two animation steps); the generation thread does not
\* take part.
InitAnimation ==
    /\ StartState("animation", "call")
    /\ ChannelCreated
    /\ tpc = "none"

\* set_duty_cycle(&pwm, v), lines 133-136: the call and the clamp.
CallSetDutyCycle ==
    /\ program = "accessor"
    /\ mpc = "call"
    /\ \E v \in DutyInputs :
          /\ sdc_arg' = Clamp(v)
          /\ hist' = [hist EXCEPT !.last_call = "direct", !.raw = v]
    /\ mpc' = "sdc_lock"
    /\ UNCHANGED <<program, line_fault, exampleVars, running, resourceVars, line_value, loopVars,
                   animVars, duty_cycle, active, mutex, threadVars, simpleVars>>

\* main, lines 323-326: the next animation step is due, in mode m (the ten
\* polls before it let the button bring current_mode to any mode).
AnimationStep(m) ==
    /\ program = "animation"
    /\ mpc = "call"
    /\ m = MODE_BREATHING => hist.breath_calls < MaxCalls
    /\ m = MODE_STROBE => hist.strobe_calls < MaxCalls
    /\ current_mode' = m
    /\ mpc' = "dispatch"
    /\ UNCHANGED <<program, line_fault, exampleVars, running, resourceVars, line_value,
                   manual_brightness, last_button_state, animation_counter,
                   iters, presses, animVars, sdc_arg, duty_cycle, active,
                   mutex, threadVars, simpleVars, hist>>

SetDutyCycle ==
    \/ SdcLock
    \/ SdcWrite
    \/ SdcUnlock

NextAccessor ==
    \/ CallSetDutyCycle
    \/ SetDutyCycle
    \/ PwmThreadCycle

SpecAccessor ==
    InitAccessor /\ [][NextAccessor]_vars

NextBreathing ==
    \/ AnimationStep(MODE_MANUAL)
    \/ AnimationStep(MODE_BREATHING)
    \/ DispatchManual
    \/ DispatchBreathing
    \/ SetDutyCycle

SpecBreathing ==
    InitAnimation /\ [][NextBreathing]_vars

NextStrobe ==
    \/ AnimationStep(MODE_MANUAL)
    \/ AnimationStep(MODE_STROBE)
    \/ DispatchManual
    \/ DispatchStrobe
    \/ SetDutyCycle

SpecStrobe ==
    InitAnimation /\ [][NextStrobe]_vars

\* One generation cycle for each duty cycle d: the thread of pwm-control at
\* the head of its loop (line 99) with d published and the driving flow
\* asleep (line 345), and simple-pwm at the head of its loop (line 68) with
\* brightness d.
InitTiming ==
    \E d \in DUTY_MIN .. DUTY_MAX :
        \/ /\ StartState("pwm-control", "loop")
           /\ ChannelWith(d)
           /\ tpc = "loop"
        \/ /\ StateAt("simple-pwm", "s_loop", d)
           /\ chip = "open"
           /\ led_line = "requested"
           /\ button_line = "none"
           /\ duty_cycle = 0
           /\ active = FALSE
           /\ mutex = "uninit"
           /\ tpc = "none"
           /\ hist = HistInit

NextTiming ==
    \/ PwmThreadCycle
    \/ SimpleCalc
    \/ SimpleHigh
    \/ SimpleLow

\* pwm-control on an LED line whose writes can fail.
InitWriteFail ==
    /\ StateWith("pwm-control", "open_chip", 0, TRUE)
    /\ NothingAcquired
    /\ duty_cycle \in StackGarbage
    /\ active \in BOOLEAN

NextWriteFail ==
    \/ PwmControlMain
    \/ PwmThread
    \/ SignalHandler

SpecWriteFail ==
    InitWriteFail /\ [][NextWriteFail]_vars

SpecTiming ==
    InitTiming /\ [][NextTiming]_vars

\* ------------------------------------------------------------------ claims
IsPwmControl ==
    program = "pwm-control"

\* The thread has a step to take: it exists, has not returned, and is not
\* waiting for a mutex that is held.
ThreadCanStep ==
    /\ ThreadRunning
    /\ tpc = "lock" => mutex \in {"free", "destroyed"}

\* set_duty_cycle has a step to take: it waits for the mutex only while
\* the thread holds it, and the thread has a step to take then.
SetDutyCycleCanStep ==
    mpc = "sdc_lock" => (mutex = "free" \/ (mutex = "thread" /\ tpc \in {"read", "unlock"}))

\* C1: once pwm_cleanup has stored active = false, the thread completes at
\* most one more cycle, needs at most the eight steps of one cycle and the
\* exit to terminate, is never blocked on the way, and its last write is 0:
\* whenever the thread has returned (and so whenever pthread_join has
\* returned) the line is low, whatever duty cycle the last cycle had.
C1_StopThenLow ==
    IsPwmControl =>
        /\ hist.stop_cycles <= 1
        /\ hist.stop_steps <= 8
        /\ (mpc = "join" /\ tpc # "done") => ThreadCanStep
        /\ tpc = "done" => (~active /\ hist.last_write = 0 /\ line_value = 0)
        /\ mpc \in {"mutex_destroy", "exit"} /\ hist.initialised /\ tpc # "none"
              => (tpc = "done" /\ line_value = 0)

\* C1 witness: the thread returned after completing, with active already
\* false, a cycle of duty 100 (which left the line high).
C1_Witness ==
    /\ IsPwmControl
    /\ tpc = "done"
    /\ duty = 100
    /\ hist.stop_cycles = 1
    /\ mpc = "exit"

\* C2: on every path of main the LED line is released, the chip closed and
\* the mutex destroyed only while the thread is not running; the thread never
\* writes a released line and never locks a destroyed mutex.
C2_ReleaseAfterJoin ==
    IsPwmControl =>
        /\ (led_line = "released" \/ chip = "closed" \/ mutex = "destroyed")
              => ~ThreadRunning
        /\ ~hist.use_after_release
        /\ ~hist.lock_after_destroy

\* C2 witness: a normal shutdown, thread joined, everything released.
C2_Witness ==
    /\ IsPwmControl
    /\ tpc = "done"
    /\ led_line = "released"
    /\ chip = "closed"
    /\ mutex = "destroyed"
    /\ hist.last_write = 0

\* C3: from pwm_init onward duty_cycle is in [0,100], and so is every value
\* the generation thread reads.
C3_DutyInRange ==
    (IsPwmControl /\ hist.initialised) =>
        /\ duty_cycle \in 0 .. 100
        /\ sdc_arg \in 0 .. 100
        /\ hist.reads > 0 => hist.read_val \in 0 .. 100
        /\ ThreadRunning => duty \in 0 .. 100

\* C3 witness: the thread read the upper end of the range while the driving
\* loop was in an animation mode.
C3_Witness ==
    /\ IsPwmControl
    /\ hist.reads = 1
    /\ hist.read_val = 100
    /\ current_mode # MODE_MANUAL

\* C4: in each cycle the thread reads duty_cycle once, with the mutex held,
\* and both times and both phase conditions of the cycle use that value,
\* whatever set_duty_cycle stores meanwhile.
C4_OneReadPerCycle ==
    IsPwmControl =>
        /\ hist.read_locked
        /\ hist.reads <= 1
        /\ tpc \in {"unlock", "calc", "high", "low"}
              => (hist.reads = 1 /\ duty = hist.read_val)
        /\ tpc \in {"high", "low"}
              => /\ on_time_ns = (PWM_PERIOD_NS * hist.read_val) \div 100
                 /\ off_time_ns = PWM_PERIOD_NS - on_time_ns
        /\ hist.used_high \in {-1, hist.read_val}
        /\ hist.used_low \in {-1, hist.read_val}
        /\ hist.used_high # -1 => (hist.wrote1 <=> hist.read_val > 0)
        /\ hist.used_low # -1 => (hist.wrote0 <=> hist.read_val < 100)

\* C4 witness: the low phase of a cycle is about to be decided after a
\* set_duty_cycle changed the published value during that cycle.
C4_Witness ==
    /\ IsPwmControl
    /\ tpc = "low"
    /\ hist.wrote1
    /\ duty_cycle # duty

\* C5: a cycle of duty 0 never writes 1, a cycle of duty 100 never writes 0,
\* and no sleep of length 0 is issued, in pwm_thread and in simple-pwm.
C5_NoSpuriousToggle ==
    /\ ~hist.zero_sleep
    /\ (IsPwmControl /\ hist.used_high # -1 /\ duty = 0)
          => (~hist.wrote1 /\ line_value = 0)
    /\ (IsPwmControl /\ hist.used_low # -1 /\ duty = 100)
          => (~hist.wrote0 /\ line_value = 1)
    /\ (program = "simple-pwm" /\ mpc \in {"s_low", "s_update"} /\ brightness = 0)
          => (~hist.wrote1 /\ line_value = 0)
    /\ (program = "simple-pwm" /\ mpc = "s_update" /\ brightness = 100)
          => (~hist.wrote0 /\ line_value = 1)

\* C5 witness: pwm_thread completed a cycle of duty 100.
C5_Witness ==
    /\ IsPwmControl
    /\ tpc = "loop"
    /\ hist.used_low = 100
    /\ hist.wrote1

\* The product p * d does not leave the int range (p > 0).
NoOverflow(p, d) ==
    d <= 0 \/ p <= INT_MAX \div d

\* on is p * d / 100 up to truncation, and off completes the period.
ExactTimes(on, off, p, d) ==
    /\ NoOverflow(p, d)
    /\ on >= 0
    /\ on <= p
    /\ on + off = p
    /\ 100 * on <= p * d
    /\ p * d < 100 * (on + 1)

\* C6: for every duty cycle in [0,100], on-time plus off-time is the period
\* exactly and the on-time is period*d/100 truncated (error below one unit,
\* the product not overflowing), for pwm-control (1,000,000 ns) and for
\* simple-pwm (1000 us).
C6_TimesAddUp ==
    /\ PWM_PERIOD_NS = 1000000
    /\ period_us = 1000
    /\ (IsPwmControl /\ tpc \in {"high", "low"})
          => ExactTimes(on_time_ns, off_time_ns, PWM_PERIOD_NS, duty)
    /\ (program = "simple-pwm" /\ mpc \in {"s_high", "s_low", "s_update"})
          => ExactTimes(on_time, off_time, period_us, brightness)

\* C6 witness: the times of a cycle of duty 33 in pwm-control.
C6_Witness ==
    /\ IsPwmControl
    /\ tpc = "high"
    /\ duty = 33
    /\ on_time_ns = 330000
    /\ off_time_ns = 670000

Min2(a, b) ==
    IF a <= b THEN a ELSE b

Max2(a, b) ==
    IF a >= b THEN a ELSE b

\* C7: set_duty_cycle(v) stores min(100, max(0, v)) for every int v, with the
\* mutex held, always runs to its end, and the thread's next read returns the
\* value of the last store.
C7_ClampAndPublish ==
    /\ mpc \in {"sdc_lock", "sdc_write"}
          => sdc_arg = Min2(100, Max2(0, hist.raw))
    /\ mpc \in {"sdc_write", "sdc_unlock"} => mutex = "main"
    /\ tpc \in {"read", "unlock"} => mutex = "thread"
    /\ SetDutyCycleCanStep
    /\ hist.last_pub = "direct"
          => duty_cycle = Min2(100, Max2(0, hist.written_raw))
    /\ hist.reads = 1
          => hist.read_val = Min2(100, Max2(0, hist.read_raw))

\* C7 witness: the thread read 100 after set_duty_cycle(150) stored last.
C7_Witness ==
    /\ program = "accessor"
    /\ tpc = "unlock"
    /\ hist.read_raw = 150
    /\ hist.read_val = 100
    /\ mpc = "call"

\* C8 (as claimed): no field of pwm_control_t is written by the driving flow
\* and read by the generation thread outside the mutex while the thread runs.
C8_SharedOnlyUnderMutex ==
    \A f \in {"duty_cycle", "active"} :
        ~ /\ <<"main", f, "write">> \in hist.unlocked_access
          /\ <<"thread", f, "read">> \in hist.unlocked_access

StrobeCallDone ==
    /\ program = "animation"
    /\ mpc = "call"
    /\ hist.last_call = "strobe"

\* C9 (as claimed): after any strobe call the duty cycle is 0 or 100, and
\* with strobe the only caller it is 0 after calls 1-5, 100 after calls 6-10,
\* and so on.
C9_StrobeAlwaysHard ==
    StrobeCallDone =>
        /\ duty_cycle \in {0, 100}
        /\ hist.last_pub # "manual"
              => duty_cycle = 100 * (((hist.strobe_calls - 1) \div 5) % 2)

\* C9 (amended): state flips on every 5th call exactly and only those calls
\* publish, 100 * state; every other call leaves the duty cycle as it was, so
\* a value stored by another mode stays until the next flip.
C9_StrobeFlipsEveryFifth ==
    program = "animation" =>
        /\ strobe_state = (hist.strobe_calls \div 5) % 2
        /\ strobe_counter = hist.strobe_calls % 5
        /\ (mpc = "call" /\ hist.last_pub = "strobe")
              => duty_cycle = 100 * strobe_state
        /\ (mpc = "call" /\ hist.last_pub = "manual")
              => duty_cycle = manual_brightness
        /\ (mpc = "call" /\ hist.last_pub = "none")
              => duty_cycle = 0
        /\ (StrobeCallDone /\ hist.strobe_calls % 5 = 0)
              => hist.last_pub = "strobe"

\* C9 witness: a strobe call, after earlier flips, returned with the 50 of
\* manual mode still published.
C9_Witness ==
    /\ StrobeCallDone
    /\ hist.strobe_calls = 12
    /\ duty_cycle = 50

\* The n-th value of 2,4,...,100,98,...,0,2,...
Triangle(n) ==
    LET m == n % 100
    IN  IF m <= 50 THEN 2 * m ELSE 200 - 2 * m

\* C10: the n-th call of breathing_animation publishes the n-th value of
\* 2,4,...,100,98,...,0,2,..., the direction reverses exactly at 100 and at 0,
\* and the value stays in [0,100].
C10_BreathingSequence ==
    program = "animation" =>
        /\ brightness = Triangle(hist.breath_calls)
        /\ direction = (IF hist.breath_calls % 100 < 50 THEN 1 ELSE -1)
        /\ brightness \in 0 .. 100
        /\ (hist.last_call = "breathing" /\ mpc \in {"sdc_lock", "sdc_write"})
              => sdc_arg = Triangle(hist.breath_calls)
        /\ (hist.last_pub = "breathing" /\ mpc = "call")
              => duty_cycle = Triangle(hist.breath_calls)

\* C10 witness: the first value of the second rising leg.
C10_Witness ==
    /\ program = "animation"
    /\ mpc = "call"
    /\ hist.last_pub = "breathing"
    /\ hist.breath_calls = 101
    /\ duty_cycle = 2
    /\ direction = 1

\* C11 (as claimed): in pwm-control every sampled falling edge of the button
\* prints the next name of the cycle Manual -> Breathing -> Sine Wave ->
\* Strobe -> Manual, and the animation the control loop runs after the print
\* is the one that was named.
C11_PrintedModeRuns ==
    IsPwmControl =>
        /\ hist.printed # "none"
              => hist.printed = mode_names[(presses % MODE_COUNT) + 1]
        /\ (hist.printed # "none" /\ hist.ran # "none")
              => hist.ran = AnimationNamed(hist.printed)

\* C13 (as claimed): hello-world's main returns 1 when an acquisition step
\* (open chip, get LED line, get button line, request LED output, request
\* button input) failed, without having entered the main loop, and returns 0
\* only when every step succeeded and the loop was ended by the signal.
C13_ExitStatusTellsFailure ==
    program = "hello-world" =>
        /\ hist.acq_failed => ~hist.entered_loop
        /\ mpc = "exit" =>
              /\ exit_status \in {0, 1}
              /\ hist.acq_failed => exit_status = 1
              /\ exit_status = 0 => (~hist.acq_failed /\ ~running)

\* The message the claim expects for a pair of successive samples.
ExpectedMessage(prev, cur) ==
    CASE prev = 1 /\ cur = 0 -> "Button pressed - LED ON"
      [] prev = 0 /\ cur = 1 -> "Button released - LED OFF"
      [] OTHER               -> "none"

\* C15 (as claimed): every iteration of hello-world's polling loop prints
\* 'Button pressed - LED ON' when the sample went 1 -> 0, 'Button released -
\* LED OFF' when it went 0 -> 1, and nothing when the sample did not change.
C15_MessageOnEveryChange ==
    (program = "hello-world" /\ hist.polled)
        => hist.msg = ExpectedMessage(hist.prev_sample, hist.sample)

\* C16: in gpio-interrupts each button's counter equals the number of events
\* read successfully on that button (a failed read adds nothing), and the LED
\* state and the level of the LED line equal (button1_count + button2_count)
\* mod 2: one toggle per event read, none for a failed read.
C16_CountsAndLedParity ==
    program = "gpio-interrupts" =>
        /\ button1_count = hist.ev1
        /\ button2_count = hist.ev2
        /\ led_state = (button1_count + button2_count) % 2
        /\ led_line = "requested" => line_value = led_state

\* C16 witness: both buttons have had events read, in unequal numbers and an
\* odd total, and a read has failed as well.
C16_Witness ==
    /\ program = "gpio-interrupts"
    /\ button1_count = 2
    /\ button2_count = 1
    /\ hist.read_failed
    /\ line_value = 1
    /\ mpc = "g_loop"

\* A line that is not held: never requested, or requested and released once.
LineNotHeld(l) ==
    l \in {"none", "got", "released"}

\* C12 (as claimed): when main of any example program has returned, the chip
\* is closed exactly once if it was opened, and every line that was requested
\* has been released exactly once.
C12_AllReleasedAtExit ==
    mpc = "exit" =>
        /\ chip \in {"unopened", "closed"}
        /\ LineNotHeld(led_line)
        /\ LineNotHeld(button_line)
        /\ LineNotHeld(button2_line)

ThreadStep ==
    tpc' # tpc

====
